---- MODULE Spec2Model ----
(***************************************************************************)
(* A model of the MVG incident server (mvg_mcp_server.py): the in-memory   *)
(* cache MVGCache, the fetcher MVGDataFetcher, get_incidents and the tool  *)
(* and resource handlers.                                                  *)
(*                                                                         *)
(* Time is counted in minutes (the unit of cache_duration_minutes);        *)
(* datetime.now() is the variable `now`.  Python values are tagged records *)
(* ([kind |-> ...]); a Python str is a sequence of one-character strings,  *)
(* so that lower(), upper() and `in` are computed character by character.  *)
(***************************************************************************)
EXTENDS Integers, Sequences, FiniteSets, TLC

\* ------------------------------------------------------------------ bounds

\* The clock runs from 0 to MaxTime.
MaxTime == 2
\* Cache durations a cache is constructed with: 0 .. MaxDuration minutes.
MaxDuration == 2
\* set(X) is called directly with lists of at most MaxItems incidents.
MaxItems == 2
\* search_incidents is exercised on lists of at most MaxSearchItems incidents.
MaxSearchItems == 2

\* ------------------------------------------------------------ Python values

None == [kind |-> "none"]
JInt(i) == [kind |-> "int", i |-> i]
\* A Python int beyond the model's integers, known by the range it lies in:
\* "year" (a date after the year 9999), "time_t" (beyond the platform's time_t).
JBigInt(r) == [kind |-> "int", range |-> r]
JBool(b) == [kind |-> "bool", b |-> b]
JFloat(x) == [kind |-> "float", x |-> x]
JStr(s) == [kind |-> "str", s |-> s]
JList(xs) == [kind |-> "list", items |-> xs]
JDict(m) == [kind |-> "dict", map |-> m]
\* A raised exception, as the outcome of a call.
Raise(e) == [kind |-> "raise", exc |-> e]

IsStr(v) == v.kind = "str"
IsList(v) == v.kind = "list"
IsDict(v) == v.kind = "dict"
\* isinstance(v, int): bool is a subclass of int
IsInt(v) == v.kind \in {"int", "bool"}
IsRaise(v) == v.kind = "raise"

\* key in d, for a dict d
HasKey(d, k) == k \in DOMAIN d.map
\* d.get(k, default)
Get(d, k, default) == IF HasKey(d, k) THEN d.map[k] ELSE default
\* d[k] = v
Put(d, k, v) == JDict((k :> v) @@ d.map)

\* ------------------------------------------------------------------ strings

\* The letters of the model's alphabet: each has one upper and one lower form.
UpperLetters ==
  <<"A", "B", "C", "D", "E", "F", "G", "H", "I", "J", "K", "L", "M", "N", "O">> \o
  <<"P", "Q", "R", "S", "T", "U", "V", "W", "X", "Y", "Z", "Ä", "Ö", "Ü">>
LowerLetters ==
  <<"a", "b", "c", "d", "e", "f", "g", "h", "i", "j", "k", "l", "m", "n", "o">> \o
  <<"p", "q", "r", "s", "t", "u", "v", "w", "x", "y", "z", "ä", "ö", "ü">>

\* str.lower() on one character
LowerChar(c) ==
  IF \E i \in 1..Len(UpperLetters) : UpperLetters[i] = c
  THEN LowerLetters[CHOOSE i \in 1..Len(UpperLetters) : UpperLetters[i] = c]
  ELSE c

\* str.upper() on one character
UpperChar(c) ==
  IF \E i \in 1..Len(LowerLetters) : LowerLetters[i] = c
  THEN UpperLetters[CHOOSE i \in 1..Len(LowerLetters) : LowerLetters[i] = c]
  ELSE c

\* str.lower()
Lower(s) == [i \in 1..Len(s) |-> LowerChar(s[i])]
\* str.upper()
Upper(s) == [i \in 1..Len(s) |-> UpperChar(s[i])]

\* a in b, for two str
Contains(a, b) ==
  \E k \in 0..(Len(b) - Len(a)) : \A i \in 1..Len(a) : b[k + i] = a[i]

\* ------------------------------------------------------------------- state

VARIABLES
  now,            \* datetime.now(), in minutes
  cache_duration, \* MVGCache.cache_duration, in minutes
  cached_data,    \* MVGCache._cached_data: None or a CachedData
  pc,             \* per caller: "idle", or "awaiting" the upstream response
  req,            \* per caller: the request whose handler is suspended, or None
  calls,          \* per caller: upstream GETs issued by its suspended handler
  last            \* the operation that ran last, and what it returned

vars == <<now, cache_duration, cached_data, pc, req, calls, last>>

\* CachedData(data, timestamp, expires_at)
CachedData(d, t, e) ==
  [kind |-> "CachedData", data |-> d, timestamp |-> t, expires_at |-> e]

\* --------------------------------------------------------------- MVGCache

\* is_expired with the comparison `>` instead of `>=`
is_expired_gt ==
  IF cached_data = None THEN TRUE ELSE now > cached_data.expires_at

\* MVGCache.is_expired
is_expired ==
  IF cached_data = None THEN TRUE ELSE now >= cached_data.expires_at

\* MVGCache.get: None, or the list
get == IF is_expired THEN None ELSE JList(cached_data.data)

\* set with expires_at = now, the duration left out
set_without_duration(data) == CachedData(data, now, now)

\* set replacing the data and the expiry but keeping the timestamp of an entry
\* that is already there
set_keeping_timestamp(data) ==
  CachedData(data,
             IF cached_data = None THEN now ELSE cached_data.timestamp,
             now + cache_duration)

\* MVGCache.set(data): the new _cached_data
set(data) == CachedData(data, now, now + cache_duration)

\* datetime.isoformat()
isoformat(t) == [kind |-> "isoformat", of |-> t]

\* get_cache_info deciding "expired" with `>` instead of through is_expired
get_cache_info_own_test ==
  IF cached_data = None
  THEN [status |-> "empty", cached_items |-> 0]
  ELSE [status |-> IF now > cached_data.expires_at THEN "expired" ELSE "valid",
        cached_items |-> Len(cached_data.data),
        cached_at |-> isoformat(cached_data.timestamp),
        expires_at |-> isoformat(cached_data.expires_at),
        cache_duration_minutes |-> cache_duration]

\* get_cache_info counting only servable items
get_cache_info_servable ==
  IF cached_data = None
  THEN [status |-> "empty", cached_items |-> 0]
  ELSE [status |-> IF is_expired THEN "expired" ELSE "valid",
        cached_items |-> IF is_expired THEN 0 ELSE Len(cached_data.data),
        cached_at |-> isoformat(cached_data.timestamp),
        expires_at |-> isoformat(cached_data.expires_at),
        cache_duration_minutes |-> cache_duration]

\* get_cache_info without cache_duration_minutes
get_cache_info_no_duration ==
  IF cached_data = None
  THEN [status |-> "empty", cached_items |-> 0]
  ELSE [status |-> IF is_expired THEN "expired" ELSE "valid",
        cached_items |-> Len(cached_data.data),
        cached_at |-> isoformat(cached_data.timestamp),
        expires_at |-> isoformat(cached_data.expires_at)]

\* MVGCache.get_cache_info
get_cache_info ==
  IF cached_data = None
  THEN [status |-> "empty", cached_items |-> 0]
  ELSE [status |-> IF is_expired THEN "expired" ELSE "valid",
        cached_items |-> Len(cached_data.data),
        cached_at |-> isoformat(cached_data.timestamp),
        expires_at |-> isoformat(cached_data.expires_at),
        cache_duration_minutes |-> cache_duration]

\* ---------------------------------------------------------- MVGDataFetcher

INCIDENT == <<"I", "N", "C", "I", "D", "E", "N", "T">>

ContainerKeys == <<"messages", "data", "items", "results">>

\* the probe taking a mapping found under a container key as a list of one
RECURSIVE ProbeKeys_wrapping_mapping(_, _)
ProbeKeys_wrapping_mapping(data, i) ==
  IF i > Len(ContainerKeys)
  THEN IF HasKey(data, "type") THEN <<data>> ELSE <<>>
  ELSE IF HasKey(data, ContainerKeys[i]) /\ IsList(data.map[ContainerKeys[i]])
       THEN data.map[ContainerKeys[i]].items
       ELSE IF HasKey(data, ContainerKeys[i]) /\ IsDict(data.map[ContainerKeys[i]])
            THEN <<data.map[ContainerKeys[i]]>>
            ELSE ProbeKeys_wrapping_mapping(data, i + 1)

\* the probe stopping at the first key present, list or not
RECURSIVE ProbeKeys_first_present(_, _)
ProbeKeys_first_present(data, i) ==
  IF i > Len(ContainerKeys)
  THEN IF HasKey(data, "type") THEN <<data>> ELSE <<>>
  ELSE IF HasKey(data, ContainerKeys[i])
       THEN IF IsList(data.map[ContainerKeys[i]])
            THEN data.map[ContainerKeys[i]].items
            ELSE <<>>
       ELSE ProbeKeys_first_present(data, i + 1)

\* The for/else of filter_incidents over keys i.. of ContainerKeys.
RECURSIVE ProbeKeys(_, _)
ProbeKeys(data, i) ==
  IF i > Len(ContainerKeys)
  THEN IF HasKey(data, "type") THEN <<data>> ELSE <<>>
  ELSE IF HasKey(data, ContainerKeys[i]) /\ IsList(data.map[ContainerKeys[i]])
       THEN data.map[ContainerKeys[i]].items
       ELSE ProbeKeys(data, i + 1)

\* The candidate list `messages` of filter_incidents
Messages(data) ==
  IF IsList(data) THEN data.items
  ELSE IF IsDict(data) THEN ProbeKeys(data, 1)
  ELSE <<>>

\* the test keeping every mapping that has a type, whatever the type
IsIncident_any_type(message) ==
  IsDict(message) /\ HasKey(message, "type")

\* isinstance(message, dict) and message.get("type") == "INCIDENT"
IsIncident(message) ==
  IsDict(message) /\ Get(message, "type", None) = JStr(INCIDENT)

\* filter_incidents returning the candidate list unfiltered
filter_incidents_keeping_all(data) == Messages(data)

\* MVGDataFetcher.filter_incidents
filter_incidents(data) == SelectSeq(Messages(data), IsIncident)

DigitChars == <<"0", "1", "2", "3", "4", "5", "6", "7", "8", "9">>
D2(n) == <<DigitChars[(n \div 10) + 1], DigitChars[(n % 10) + 1]>>

RECURSIVE Digits(_)
Digits(n) == IF n < 10 THEN <<DigitChars[n + 1]>>
             ELSE Digits(n \div 10) \o <<DigitChars[(n % 10) + 1]>>

\* str(v) of an int
StrOfInt(v) ==
  IF "range" \in DOMAIN v THEN JStr(<<v.range>>)
  ELSE IF v.kind = "bool" THEN JStr(IF v.b THEN <<"T", "r", "u", "e">>
                                    ELSE <<"F", "a", "l", "s", "e">>)
  ELSE IF v.i < 0 THEN JStr(<<"-">> \o Digits(0 - v.i))
  ELSE JStr(Digits(v.i))

\* The milliseconds of an int the model's integers hold
Millis(v) == IF v.kind = "bool" THEN (IF v.b THEN 1 ELSE 0) ELSE v.i

\* dt.strftime("%d.%m.%Y %H:%M") of datetime.fromtimestamp(ms / 1000), for the
\* milliseconds the model's integers hold (December 1969 and January 1970),
\* in a local time of UTC.
strftime(ms) ==
  LET minutes == ms \div 60000
      days == minutes \div 1440
      hh == (minutes % 1440) \div 60
      mm == minutes % 60
      date == IF days >= 0
              THEN D2(days + 1) \o <<".", "0", "1", ".", "1", "9", "7", "0">>
              ELSE D2(32 + days) \o <<".", "1", "2", ".", "1", "9", "6", "9">>
  IN date \o <<" ">> \o D2(hh) \o <<":">> \o D2(mm)

\* MVGDataFetcher.format_timestamp: the string, or the exception that escapes
format_timestamp(timestamp) ==
  IF "range" \in DOMAIN timestamp
  THEN IF timestamp.range = "year"
       THEN StrOfInt(timestamp)          \* ValueError: caught
       ELSE Raise("OverflowError")       \* not caught by (ValueError, OSError)
  ELSE JStr(strftime(Millis(timestamp)))

TimeFields == <<"publication", "validFrom", "validTo">>
Readable(f) == CASE f = "publication" -> "publication_readable"
                 [] f = "validFrom" -> "validFrom_readable"
                 [] f = "validTo" -> "validTo_readable"

\* The three `if` statements of enhance_incident_data, from the i-th on
RECURSIVE EnhanceFrom(_, _)
EnhanceFrom(enhanced, i) ==
  IF i > Len(TimeFields) THEN enhanced
  ELSE LET f == TimeFields[i] IN
       IF HasKey(enhanced, f) /\ IsInt(enhanced.map[f])
       THEN LET r == format_timestamp(enhanced.map[f]) IN
            IF IsRaise(r) THEN r
            ELSE EnhanceFrom(Put(enhanced, Readable(f), r), i + 1)
       ELSE EnhanceFrom(enhanced, i + 1)

\* MVGDataFetcher.enhance_incident_data: the new dict, or the exception
enhance_incident_data(incident) == EnhanceFrom(incident, 1)

\* fetch_incidents returning the filtered incidents as they are, unenhanced
EnhanceAll_returning_unenhanced(incidents, i) ==
  JList(SubSeq(incidents, i, Len(incidents)))

\* The list comprehension of fetch_incidents over incidents[i..]
RECURSIVE EnhanceAll(_, _)
EnhanceAll(incidents, i) ==
  IF i > Len(incidents) THEN JList(<<>>)
  ELSE LET e == enhance_incident_data(incidents[i]) IN
       IF IsRaise(e) THEN e
       ELSE LET rest == EnhanceAll(incidents, i + 1) IN
            IF IsRaise(rest) THEN rest ELSE JList(<<e>> \o rest.items)

\* MVGDataFetcher.fetch_incidents, given what fetch_raw_data returned or raised
fetch_incidents(raw) ==
  IF IsRaise(raw) THEN raw ELSE EnhanceAll(filter_incidents(raw), 1)

\* ------------------------------------------------------------ the handlers

EmptyStr == JStr(<<>>)

\* One of the two `for line in incident["lines"]` loops of search_incidents, from
\* the i-th line on: "yes" (a label contains the needle: break), "no", or the
\* exception raised.  fold is "lower" (the query loop) or "upper" (the filter loop).
RECURSIVE LineLoop(_, _, _, _)
LineLoop(items, needle, fold, i) ==
  IF i > Len(items) THEN "no"
  ELSE LET line == items[i] IN
       IF IsDict(line) /\ HasKey(line, "label")
       THEN LET label == line.map["label"] IN
            IF ~IsStr(label) THEN "AttributeError"
            ELSE IF Contains(needle, IF fold = "lower" THEN Lower(label.s)
                                     ELSE Upper(label.s))
                 THEN "yes"
                 ELSE LineLoop(items, needle, fold, i + 1)
       ELSE LineLoop(items, needle, fold, i + 1)

\* `for line in lines` for any value of incident["lines"]: a str yields str and a
\* dict yields its keys, none of them a dict; other values are not iterable.
LinesLoop(lines, needle, fold) ==
  IF IsList(lines) THEN LineLoop(lines.items, needle, fold, 1)
  ELSE IF IsStr(lines) \/ IsDict(lines) THEN "no"
  ELSE "TypeError"

\* The body of the `for incident in incidents` loop of search_incidents:
\* "yes" (the incident is appended), "no", or the exception raised.
MatchIncident(incident, query, line_filter) ==
  LET title == Get(incident, "title", EmptyStr)
      description == Get(incident, "description", EmptyStr)
  IN
  IF ~IsStr(title) THEN "AttributeError"
  ELSE IF ~IsStr(description) THEN "AttributeError"
  ELSE
    LET title_match == Contains(query, Lower(title.s))
        desc_match == Contains(query, Lower(description.s))
        line_match == IF HasKey(incident, "lines")
                      THEN LinesLoop(incident.map["lines"], query, "lower")
                      ELSE "no"
    IN
    IF line_match \notin {"yes", "no"} THEN line_match
    ELSE
      LET line_filter_match ==
            IF line_filter # <<>>
            THEN IF HasKey(incident, "lines")
                 THEN LinesLoop(incident.map["lines"], line_filter, "upper")
                 ELSE "no"
            ELSE "yes"
      IN
      IF line_filter_match \notin {"yes", "no"} THEN line_filter_match
      ELSE IF (title_match \/ desc_match \/ line_match = "yes")
              /\ line_filter_match = "yes"
           THEN "yes" ELSE "no"

\* The `for incident in incidents` loop from the i-th incident on:
\* filtered_incidents as a list, or the exception raised.
RECURSIVE SearchLoop(_, _, _, _)
SearchLoop(incidents, query, line_filter, i) ==
  IF i > Len(incidents) THEN JList(<<>>)
  ELSE LET m == MatchIncident(incidents[i], query, line_filter) IN
       IF m \notin {"yes", "no"} THEN Raise(m)
       ELSE LET rest == SearchLoop(incidents, query, line_filter, i + 1) IN
            IF IsRaise(rest) THEN rest
            ELSE IF m = "yes" THEN JList(<<incidents[i]>> \o rest.items)
            ELSE rest

\* the query taken as given, without .lower()
QueryOf_as_given(arguments) == Get(arguments, "query", EmptyStr).s

\* query = arguments.get("query", "").lower()
QueryOf(arguments) == Lower(Get(arguments, "query", EmptyStr).s)
\* line_filter = arguments.get("line", "").upper()
LineFilterOf(arguments) == Upper(Get(arguments, "line", EmptyStr).s)

\* search_incidents echoing the query and the filter as folded for matching
search_incidents_echo_folded(arguments, incidents) ==
  LET filtered == SearchLoop(incidents, QueryOf(arguments),
                             LineFilterOf(arguments), 1)
  IN IF IsRaise(filtered) THEN filtered
     ELSE [kind |-> "search_result",
           incidents |-> filtered.items,
           count |-> Len(filtered.items),
           query |-> JStr(QueryOf(arguments)),
           line_filter |-> JStr(LineFilterOf(arguments)),
           total_incidents |-> Len(incidents)]

\* handle_call_tool, the search_incidents branch after `await get_incidents()`:
\* the result mapping, or the exception raised.
search_incidents(arguments, incidents) ==
  LET filtered == SearchLoop(incidents, QueryOf(arguments),
                             LineFilterOf(arguments), 1)
  IN IF IsRaise(filtered) THEN filtered
     ELSE [kind |-> "search_result",
           incidents |-> filtered.items,
           count |-> Len(filtered.items),
           query |-> Get(arguments, "query", None),
           line_filter |-> Get(arguments, "line", None),
           total_incidents |-> Len(incidents)]

\* A request to the server: a tool call or a resource read.
ToolCall(name, arguments) ==
  [kind |-> "call_tool", name |-> name, arguments |-> arguments]
ResourceRead(uri) == [kind |-> "read_resource", uri |-> uri]

\* The requests whose handler runs `await get_incidents(...)`
NeedsIncidents(r) ==
  \/ r.kind = "call_tool" /\ r.name \in {"get_mvg_incidents", "search_incidents"}
  \/ r.kind = "read_resource" /\ r.uri = "mvg://incidents"

\* every tool call forcing a refresh
ForceRefresh_any_tool(r) == r.kind = "call_tool"

\* The force_refresh the handler passes to get_incidents
ForceRefresh(r) ==
  /\ r.kind = "call_tool"
  /\ r.name = "get_mvg_incidents"
  /\ Get(r.arguments, "force_refresh", JBool(FALSE)) = JBool(TRUE)

\* get_incidents reading the cache whatever force_refresh is
get_incidents_cached_ignoring_force(force_refresh) == get

\* get_incidents serving an expired entry instead of fetching
get_incidents_cached_serving_stale(force_refresh) ==
  IF ~force_refresh
  THEN IF cached_data = None THEN None ELSE JList(cached_data.data)
  ELSE None

\* get_incidents up to its `await`: the cached list it returns, or None when it
\* goes on to fetch.
get_incidents_cached(force_refresh) ==
  IF ~force_refresh THEN get ELSE None

\* a failed fetch caching an empty list
CacheAfterFetch_caching_failure(incidents) ==
  IF IsRaise(incidents) THEN set(<<>>) ELSE set(incidents.items)

\* a failed fetch clearing the cache
CacheAfterFetch_clearing_on_failure(incidents) ==
  IF IsRaise(incidents) THEN None ELSE set(incidents.items)

\* a fetch that finds a valid entry stored meanwhile keeping that entry
CacheAfterFetch_keeping_newer(incidents) ==
  IF IsRaise(incidents) THEN cached_data
  ELSE IF ~is_expired THEN cached_data
  ELSE set(incidents.items)

\* get_incidents from `await fetcher.fetch_incidents()` on: _cached_data after
\* fetch_incidents returned `incidents` (then cache.set runs) or raised.
CacheAfterFetch(incidents) ==
  IF IsRaise(incidents) THEN cached_data ELSE set(incidents.items)

\* What the handler of r returns once get_incidents has returned `incidents`;
\* info is cache.get_cache_info() at that moment.
AfterIncidents(r, incidents, info) ==
  IF r.kind = "read_resource" THEN JList(incidents)
  ELSE IF r.name = "get_mvg_incidents"
       THEN [kind |-> "incidents_result", incidents |-> incidents,
             count |-> Len(incidents), cache_info |-> info]
       ELSE search_incidents(r.arguments, incidents)

\* an unknown tool or URI answered with the cache status
WithoutIncidents_unknown_as_status(r, info) == [kind |-> "cache_info", info |-> info]

\* What the handler of a request that needs no incidents returns or raises.
WithoutIncidents(r, info) ==
  IF r.kind = "call_tool"
  THEN IF r.name = "get_cache_status" THEN [kind |-> "cache_info", info |-> info]
       ELSE Raise("ValueError")
  ELSE IF r.uri = "mvg://cache-info" THEN [kind |-> "cache_info", info |-> info]
       ELSE Raise("ValueError")

\* ------------------------------------------------------------- environment

Callers == {"c1", "c2"}

IncidentU3 == JDict(
  ("type" :> JStr(INCIDENT)) @@
  ("title" :> JStr(<<"U", "-", "B", "a", "h", "n", " ", "S", "t", "ö", "r", "u", "n", "g">>)) @@
  ("description" :> JStr(<<"S", "i", "g", "n", "a", "l", "s", "t", "ö", "r", "u", "n", "g", " ", "a", "u", "f", " ", "d", "e", "r", " ", "U", "3">>)) @@
  ("lines" :> JList(<<JDict("label" :> JStr(<<"U", "3">>))>>)))

InfoBauarbeiten == JDict(
  ("type" :> JStr(<<"I", "N", "F", "O">>)) @@
  ("title" :> JStr(<<"B", "a", "u", "a", "r", "b", "e", "i", "t", "e", "n">>)) @@
  ("description" :> JStr(<<"I", "n", "f", "o", "r", "m", "a", "t", "i", "o", "n", "e", "n", " ", "z", "u", " ", "B", "a", "u", "a", "r", "b", "e", "i", "t", "e", "n">>)))

IncidentU6 == JDict(
  ("type" :> JStr(INCIDENT)) @@
  ("title" :> JStr(<<"U", "-", "B", "a", "h", "n", " ", "S", "t", "ö", "r", "u", "n", "g">>)) @@
  ("description" :> JStr(<<"V", "e", "r", "s", "p", "ä", "t", "u", "n", "g", " ", "a", "u", "f", " ", "d", "e", "r", " ", "U", "6">>)) @@
  ("publication" :> JInt(90061000)) @@
  ("lines" :> JList(<<JDict("label" :> JStr(<<"U", "6">>))>>)))

IncidentNoLines == JDict(
  ("type" :> JStr(INCIDENT)) @@
  ("title" :> JStr(<<"S", "-", "B", "a", "h", "n", " ", "A", "u", "s", "f", "a", "l", "l">>)))

\* The upstream bodies of the model: the list of conftest.py, a mapping with a
\* "messages" list, and an empty list.
Payloads == {
  JList(<<IncidentU3, InfoBauarbeiten>>),
  JDict("messages" :> JList(<<IncidentU3, IncidentU6, IncidentNoLines>>)),
  JList(<<>>) }

\* What fetch_raw_data returns or raises: a decoded body, httpx.RequestError
\* (no connection, or the 30 s timeout), httpx.HTTPStatusError
\* (raise_for_status) or json.JSONDecodeError.
UpstreamOutcomes ==
  Payloads \cup {Raise("RequestError"), Raise("HTTPStatusError"),
                 Raise("JSONDecodeError")}

QueryUBahn == <<"u", "-", "b", "a", "h", "n">>
QuerySBahn == <<"S", "-", "B", "a", "h", "n">>

\* The arguments of the search_incidents calls of the model: no query, a query
\* alone, and a query with a line filter (an empty one, and "u3").
SearchArguments ==
  { JDict(<<>>),
    JDict("query" :> JStr(QueryUBahn)),
    JDict(("query" :> JStr(QueryUBahn)) @@ ("line" :> JStr(<<>>))),
    JDict(("query" :> JStr(QuerySBahn)) @@ ("line" :> JStr(<<"u", "3">>))) }

ToolRequests ==
  { ToolCall("get_mvg_incidents", JDict(<<>>)),
    ToolCall("get_mvg_incidents", JDict("force_refresh" :> JBool(TRUE))),
    ToolCall("get_cache_status", JDict(<<>>)),
    ToolCall("unknown_tool", JDict(<<>>)) } \cup
  { ToolCall("search_incidents", a) : a \in SearchArguments }

ResourceRequests ==
  { ResourceRead(u) : u \in {"mvg://incidents", "mvg://cache-info", "mvg://other"} }

Durations == 0..MaxDuration

\* --- the incidents and arguments search_incidents is exercised on

Label(s) == JDict("label" :> JStr(s))

SearchIncidents == {
  JDict(("type" :> JStr(INCIDENT)) @@ ("title" :> JStr(<<"U", "-", "B", "a", "h", "n">>)) @@
        ("description" :> JStr(<<"H", "a", "l", "t", " ", "U", "3">>)) @@
        ("lines" :> JList(<<Label(<<"U", "3">>)>>))),
  JDict(("type" :> JStr(INCIDENT)) @@ ("title" :> JStr(<<"U", "-", "B", "a", "h", "n">>)) @@
        ("lines" :> JList(<<Label(<<"U", "6">>)>>))),
  JDict(("type" :> JStr(INCIDENT)) @@ ("title" :> JStr(<<"S", "-", "B", "a", "h", "n">>))),
  JDict(("type" :> JStr(INCIDENT)) @@ ("description" :> JStr(<<"k", "e", "i", "n", "e", " ", "u", "-", "b", "a", "h", "n">>)) @@
        ("lines" :> JList(<<>>))),
  JDict(("type" :> JStr(INCIDENT)) @@ ("title" :> JStr(<<"B", "u", "s">>)) @@
        ("lines" :> JList(<<JDict("name" :> JStr(<<"U", "3">>)),
                            JStr(<<"U", "3">>),
                            Label(<<"u", "6">>),
                            Label(<<"U", "3">>)>>))),
  JDict(("type" :> JStr(INCIDENT)) @@
        ("lines" :> JList(<<Label(<<"S", "-", "B", "a", "h", "n">>)>>))) }

SearchLists ==
  UNION { [1..n -> SearchIncidents] : n \in 0..MaxSearchItems }

SearchQueries ==
  { <<>>, <<"u", "-", "b", "a", "h", "n">>, <<"U", "-", "B", "A", "H", "N">>, <<"S", "-", "B", "a", "h", "n">>, <<"u", "3">>, <<"U">> }
SearchLines ==
  { <<>>, <<"U", "3">>, <<"u", "3">>, <<"6">>, <<"s">> }

WideSearchRequests ==
  { ToolCall("search_incidents", JDict("query" :> JStr(q))) : q \in SearchQueries }
  \cup
  { ToolCall("search_incidents", JDict(("query" :> JStr(q)) @@ ("line" :> JStr(l)))) :
      q \in SearchQueries, l \in SearchLines }

\* The incident lists set() is called with directly.
SampleIncidents == {IncidentU3, IncidentNoLines}
DataLists ==
  UNION { [1..n -> SampleIncidents] : n \in 0..MaxItems }

\* What ran last: the caller, its request, what the handler returned or raised (or
\* Awaiting), the upstream GETs the handler has issued since it started, and what
\* fetch_raw_data returned or raised in this step (None: it did not return).
Event(caller, request, ret, gets, raw) ==
  [caller |-> caller, req |-> request, ret |-> ret, gets |-> gets, raw |-> raw]
Awaiting == [kind |-> "awaiting"]
CacheApi(name) == [kind |-> "cache_api", name |-> name]
CacheSetCall(data) == [kind |-> "cache_api", name |-> "set", data |-> data]

\* ------------------------------------------------------------------ actions

Init ==
  /\ now = 0
  /\ cache_duration \in Durations
  /\ cached_data = None
  /\ pc = [c \in Callers |-> "idle"]
  /\ req = [c \in Callers |-> None]
  /\ calls = [c \in Callers |-> 0]
  /\ last = Event("init", None, None, 0, None)

\* Time passes.
Tick ==
  /\ now < MaxTime
  /\ now' = now + 1
  /\ last' = Event("clock", None, None, 0, None)
  /\ UNCHANGED <<cache_duration, cached_data, pc, req, calls>>

\* the handler extending the expiry of an entry it reads
Begin_sliding_expiry(c, r) ==
  /\ pc[c] = "idle"
  /\ UNCHANGED <<now, cache_duration>>
  /\ IF ~NeedsIncidents(r)
     THEN /\ last' = Event(c, r, WithoutIncidents(r, get_cache_info), 0, None)
          /\ UNCHANGED <<cached_data, pc, req, calls>>
     ELSE LET cached == get_incidents_cached(ForceRefresh(r)) IN
          IF cached # None
          THEN /\ cached_data' = CachedData(cached_data.data, cached_data.timestamp,
                                            now + cache_duration)
               /\ last' = Event(c, r, AfterIncidents(r, cached.items, get_cache_info), 0, None)
               /\ UNCHANGED <<pc, req, calls>>
          ELSE /\ pc' = [pc EXCEPT ![c] = "awaiting"]
               /\ req' = [req EXCEPT ![c] = r]
               /\ calls' = [calls EXCEPT ![c] = calls[c] + 1]
               /\ last' = Event(c, r, Awaiting, calls'[c], None)
               /\ UNCHANGED cached_data

\* the handler issuing the upstream GET a second time
Begin_with_retry(c, r) ==
  /\ pc[c] = "idle"
  /\ UNCHANGED <<now, cache_duration, cached_data>>
  /\ IF ~NeedsIncidents(r)
     THEN /\ last' = Event(c, r, WithoutIncidents(r, get_cache_info), 0, None)
          /\ UNCHANGED <<pc, req, calls>>
     ELSE LET cached == get_incidents_cached(ForceRefresh(r)) IN
          IF cached # None
          THEN /\ last' = Event(c, r, AfterIncidents(r, cached.items, get_cache_info), 0, None)
               /\ UNCHANGED <<pc, req, calls>>
          ELSE /\ pc' = [pc EXCEPT ![c] = "awaiting"]
               /\ req' = [req EXCEPT ![c] = r]
               /\ calls' = [calls EXCEPT ![c] = calls[c] + 2]
               /\ last' = Event(c, r, Awaiting, calls'[c], None)

\* The handler of request r runs for caller c, to its return or to the `await`
\* of the upstream GET in fetch_raw_data.
Begin(c, r) ==
  /\ pc[c] = "idle"
  /\ UNCHANGED <<now, cache_duration, cached_data>>
  /\ IF ~NeedsIncidents(r)
     THEN /\ last' = Event(c, r, WithoutIncidents(r, get_cache_info), 0, None)
          /\ UNCHANGED <<pc, req, calls>>
     ELSE LET cached == get_incidents_cached(ForceRefresh(r)) IN
          IF cached # None
          THEN /\ last' = Event(c, r, AfterIncidents(r, cached.items, get_cache_info), 0, None)
               /\ UNCHANGED <<pc, req, calls>>
          ELSE /\ pc' = [pc EXCEPT ![c] = "awaiting"]
               /\ req' = [req EXCEPT ![c] = r]
               /\ calls' = [calls EXCEPT ![c] = calls[c] + 1]
               /\ last' = Event(c, r, Awaiting, calls'[c], None)

\* handle_call_tool(name, arguments)
handle_call_tool(c) == \E r \in ToolRequests : Begin(c, r)

\* handle_read_resource(uri)
handle_read_resource(c) == \E r \in ResourceRequests : Begin(c, r)

\* The upstream GET of caller c ends with `raw` (a body or an exception) and the
\* handler runs on from fetch_raw_data to its return: fetch_incidents,
\* cache.set, and the rest of the handler.
FetchReturns(c, raw) ==
  /\ pc[c] = "awaiting"
  /\ UNCHANGED <<now, cache_duration>>
  /\ pc' = [pc EXCEPT ![c] = "idle"]
  /\ calls' = [calls EXCEPT ![c] = 0]
  /\ req' = [req EXCEPT ![c] = None]
  /\ LET incidents == fetch_incidents(raw) IN
     /\ cached_data' = CacheAfterFetch(incidents)
     /\ last' = Event(c, req[c],
                      IF IsRaise(incidents) THEN incidents
                      ELSE AfterIncidents(req[c], incidents.items, get_cache_info'),
                      calls[c], raw)

Next ==
  \/ Tick
  \/ \E c \in Callers : handle_call_tool(c)
  \/ \E c \in Callers : handle_read_resource(c)
  \/ \E c \in Callers : \E raw \in UpstreamOutcomes : FetchReturns(c, raw)

Spec == Init /\ [][Next]_vars

\* --- MVGCache used directly, as test_cache does

ApiIsExpired ==
  /\ last' = Event("api", CacheApi("is_expired"), JBool(is_expired), 0, None)
  /\ UNCHANGED <<now, cache_duration, cached_data, pc, req, calls>>

ApiGet ==
  /\ last' = Event("api", CacheApi("get"), get, 0, None)
  /\ UNCHANGED <<now, cache_duration, cached_data, pc, req, calls>>

ApiSet(data) ==
  /\ cached_data' = set(data)
  /\ last' = Event("api", CacheSetCall(data), None, 0, None)
  /\ UNCHANGED <<now, cache_duration, pc, req, calls>>

ApiGetCacheInfo ==
  /\ last' = Event("api", CacheApi("get_cache_info"),
                   [kind |-> "cache_info", info |-> get_cache_info], 0, None)
  /\ UNCHANGED <<now, cache_duration, cached_data, pc, req, calls>>

NextCache ==
  \/ Tick
  \/ ApiIsExpired
  \/ ApiGet
  \/ \E data \in DataLists : ApiSet(data)
  \/ ApiGetCacheInfo

SpecCache == Init /\ [][NextCache]_vars

\* --- search_incidents over a cache that holds a list a fetch has just stored

InitSearch ==
  /\ now = 0
  /\ cache_duration = MaxDuration
  /\ \E data \in SearchLists :
       cached_data = CachedData(data, now, now + cache_duration)
  /\ pc = [c \in Callers |-> "idle"]
  /\ req = [c \in Callers |-> None]
  /\ calls = [c \in Callers |-> 0]
  /\ last = Event("init", None, None, 0, None)

SearchCached == \E r \in WideSearchRequests : Begin("c1", r)

NextSearch == SearchCached

SpecSearch == InitSearch /\ [][NextSearch]_vars

\* --- MVGDataFetcher's pure methods called directly on decoded bodies

\* Bodies are built from lists of at most MaxElems elements.
MaxElems == 2

TypeLower == JDict(
  ("type" :> JStr(<<"i", "n", "c", "i", "d", "e", "n", "t">>)) @@
  ("title" :> JStr(<<"U", "3">>)))
NoTypeRecord == JDict("title" :> JStr(<<"U", "3">>))
TypeNull == JDict(("type" :> None) @@ ("title" :> JStr(<<"U", "3">>)))

\* What a decoded JSON array may hold: INCIDENT records, records of another
\* type, of no type or of a null type, and values that are no mapping.
RawElements == {
  IncidentU3, IncidentNoLines, InfoBauarbeiten, TypeLower, NoTypeRecord, TypeNull,
  JStr(INCIDENT), JInt(7), None, JList(<<IncidentU3>>) }

RawLists == UNION { [1..n -> RawElements] : n \in 0..MaxElems }

\* A mapping that is itself a record with a type and also has container keys.
TypedWith(k, v) == JDict((k :> v) @@ IncidentNoLines.map)

\* The decoded bodies filter_incidents is applied to.
RawValues ==
  { JList(l) : l \in RawLists } \cup
  { JDict(k :> JList(l)) : k \in {"messages", "data", "items"}, l \in RawLists } \cup
  { JDict(("messages" :> JList(<<a>>)) @@ ("data" :> JList(<<b>>))) :
      a \in {IncidentU3, InfoBauarbeiten}, b \in {IncidentNoLines, JInt(7)} } \cup
  { JDict(("messages" :> m) @@ ("data" :> JList(<<IncidentU3, InfoBauarbeiten>>))) :
      m \in {None, JStr(<<"x">>), IncidentNoLines} } \cup
  { TypedWith(k, v) :
      k \in {"messages", "data", "items", "results"},
      v \in {JList(<<>>), JList(<<IncidentU3>>), None, IncidentU3} } \cup
  { IncidentU3, IncidentNoLines, InfoBauarbeiten, TypeLower, TypeNull } \cup
  { JInt(7), JStr(INCIDENT), None, JBool(TRUE), JFloat("1.5"),
    JDict(<<>>), NoTypeRecord,
    JDict("incidents" :> JList(<<IncidentU3>>)),
    JDict("messages" :> IncidentU3),
    JDict(("messages" :> JStr(INCIDENT)) @@ ("data" :> None)),
    JDict(("results" :> JInt(7)) @@ ("items" :> IncidentU3)) }

\* The values of a time field: epoch milliseconds the model's integers hold, a
\* bool, ints too large to convert, and values that are no int.
TimeValues == {
  JInt(0), JInt(90061000), JInt(0 - 60000), JBool(TRUE),
  JBigInt("year"), JBigInt("time_t"),
  JStr(<<"0">>), JFloat("1.5"), None }

Absent == [kind |-> "absent"]

\* incident with key k set to v, or left as it is when v is Absent
With(incident, k, v) == IF v = Absent THEN incident ELSE Put(incident, k, v)

\* The records enhance_incident_data is applied to.
EnhanceInputs ==
  { With(With(With(With(IncidentNoLines, "publication", p), "validFrom", f),
              "validTo", t), "publication_readable", r) :
      p \in TimeValues \cup {Absent},
      f \in {Absent, JInt(0), JBigInt("time_t")},
      t \in {Absent, JInt(90061000)},
      r \in {Absent, JStr(<<"x">>)} }

\* Upstream bodies carrying one such record, after an ordinary one.
TimePayloads == { JList(<<IncidentU3, e>>) : e \in EnhanceInputs }

FetcherCall(name, arg) == [kind |-> "fetcher_api", name |-> name, arg |-> arg]

\* The calls made: each method with each of its arguments.
FetcherCalls ==
  { FetcherCall("filter_incidents", data) : data \in RawValues } \cup
  { FetcherCall("format_timestamp", timestamp) :
      timestamp \in { v \in TimeValues : IsInt(v) } } \cup
  { FetcherCall("enhance_incident_data", incident) : incident \in EnhanceInputs } \cup
  { FetcherCall("fetch_incidents", raw) : raw \in TimePayloads }

\* A call is about to be made.
InitFetcher ==
  /\ now = 0
  /\ cache_duration = MaxDuration
  /\ cached_data = None
  /\ pc = [c \in Callers |-> "idle"]
  /\ req = [c \in Callers |-> None]
  /\ calls = [c \in Callers |-> 0]
  /\ \E call \in FetcherCalls : last = Event("call", call, None, 0, None)

Called(name) == last.caller = "call" /\ last.req.name = name

ApiFilterIncidents ==
  /\ Called("filter_incidents")
  /\ last' = Event("api", last.req, JList(filter_incidents(last.req.arg)), 0, None)
  /\ UNCHANGED <<now, cache_duration, cached_data, pc, req, calls>>

ApiFormatTimestamp ==
  /\ Called("format_timestamp")
  /\ last' = Event("api", last.req, format_timestamp(last.req.arg), 0, None)
  /\ UNCHANGED <<now, cache_duration, cached_data, pc, req, calls>>

ApiEnhanceIncidentData ==
  /\ Called("enhance_incident_data")
  /\ last' = Event("api", last.req, enhance_incident_data(last.req.arg), 0, None)
  /\ UNCHANGED <<now, cache_duration, cached_data, pc, req, calls>>

\* fetch_incidents once fetch_raw_data has returned the body
ApiFetchIncidents ==
  /\ Called("fetch_incidents")
  /\ last' = Event("api", last.req, fetch_incidents(last.req.arg), 0, last.req.arg)
  /\ UNCHANGED <<now, cache_duration, cached_data, pc, req, calls>>

NextFetcher ==
  \/ ApiFilterIncidents
  \/ ApiFormatTimestamp
  \/ ApiEnhanceIncidentData
  \/ ApiFetchIncidents

SpecFetcher == InitFetcher /\ [][NextFetcher]_vars

\* --- search_incidents over what a fetch stores of loosely-shaped records

\* INCIDENT records as the upstream may send them: filter_incidents looks at
\* nothing but the type.
Shaped(k, v) == JDict(("type" :> JStr(INCIDENT)) @@ (k :> v))

ShapeIncidents ==
  { Shaped("title", v) : v \in {None, JInt(3), JStr(<<"U", "3">>)} } \cup
  { Shaped("description", v) : v \in {None, JList(<<>>)} } \cup
  { Shaped("lines", v) :
      v \in { None, JInt(3), JStr(<<"U", "3">>), Label(<<"U", "3">>),
              JList(<<JStr(<<"U", "3">>), JInt(3), None>>),
              JList(<<JDict("name" :> JStr(<<"U", "3">>))>>),
              JList(<<Label(<<"U", "3">>), JDict("label" :> None)>>),
              JList(<<JDict("label" :> None)>>),
              JList(<<JDict("label" :> JInt(3))>>) } } \cup
  { JDict("type" :> JStr(INCIDENT)) }

ShapePayloads ==
  { JList(<<i>>) : i \in ShapeIncidents } \cup
  { JList(<<IncidentU3, i>>) : i \in ShapeIncidents }

ShapeRequests ==
  { ToolCall("search_incidents", JDict("query" :> JStr(<<"u", "3">>))),
    ToolCall("search_incidents", JDict("query" :> JStr(<<"x">>))),
    ToolCall("search_incidents",
             JDict(("query" :> JStr(<<>>)) @@ ("line" :> JStr(<<"u", "3">>)))) }

InitShapes ==
  /\ Init
  /\ cache_duration = MaxDuration

SearchShapes == \E r \in ShapeRequests : Begin("c1", r)
FetchShapes == \E raw \in ShapePayloads : FetchReturns("c1", raw)

NextShapes == SearchShapes \/ FetchShapes

SpecShapes == InitShapes /\ [][NextShapes]_vars

\* --- the server behind the upstream of conftest.py

\* The body the mocked upstream answers every GET with.
MockPayload == JList(<<IncidentU3, InfoBauarbeiten>>)

MockRequests ==
  { ToolCall("get_mvg_incidents", JDict(<<>>)),
    ResourceRead("mvg://incidents"),
    ToolCall("search_incidents", JDict("query" :> JStr(<<"U", "-", "B", "a", "h", "n">>))),
    ToolCall("search_incidents", JDict("query" :> JStr(QuerySBahn))) }

MockRequest(c) == \E r \in MockRequests : Begin(c, r)
MockResponds(c) == FetchReturns(c, MockPayload)

NextMock ==
  \/ Tick
  \/ \E c \in Callers : MockRequest(c)
  \/ \E c \in Callers : MockResponds(c)

SpecMock == Init /\ [][NextMock]_vars

\* --- the server with an upstream that may never answer

\* a client constructed with timeout=None
client_timeout_disabled == None

\* httpx.AsyncClient(timeout=30.0): seconds the client waits for the upstream
client_timeout == JInt(30)

\* The client gives up on the GET of caller c: httpx raises a TimeoutException,
\* a RequestError, at the `await` of fetch_raw_data.
TimedOut(c) ==
  /\ client_timeout # None
  /\ FetchReturns(c, Raise("RequestError"))

\* The upstream answers, or it does not; requests come as they like.
NextLive ==
  \/ Tick
  \/ \E c \in Callers : MockRequest(c)
  \/ \E c \in Callers : MockResponds(c)
  \/ \E c \in Callers : TimedOut(c)

\* The event loop resumes a handler whose GET has timed out.
SpecLive ==
  /\ Init
  /\ [][NextLive]_vars
  /\ \A c \in Callers : WF_vars(TimedOut(c))

\* --- the server with the cache it constructs

\* cache = MVGCache(cache_duration_minutes=10): a duration above zero
InitServer ==
  /\ Init
  /\ cache_duration > 0

SpecServer == InitServer /\ [][Next]_vars

\* ------------------------------------------------------------------ claims

\* The cache states of the specification, from _cached_data and the clock alone.
CacheEmpty == cached_data = None
CacheValid == cached_data # None /\ now < cached_data.expires_at
CacheExpired == cached_data # None /\ now >= cached_data.expires_at

IsCacheCall(name) ==
  last.req.kind = "cache_api" /\ last.req.name = name

\* C1: Cache.get() returns the stored data if and only if an entry exists and the
\* current time is strictly less than its expires_at; otherwise (empty cache, or
\* now >= expires_at) it returns None, which differs from a stored empty list: a
\* valid entry holding an empty list is returned as an empty list.
C1_GetReturnsDataIffValid ==
  IsCacheCall("get") =>
    /\ (last.ret # None) <=> CacheValid
    /\ CacheValid => last.ret = JList(cached_data.data)
    /\ (CacheValid /\ cached_data.data = <<>>) =>
         (last.ret = JList(<<>>) /\ last.ret # None)
    /\ (CacheEmpty \/ CacheExpired) => last.ret = None

\* get() was called at the very instant an entry expires (now = expires_at).
C1_Witness ==
  /\ IsCacheCall("get")
  /\ cached_data # None
  /\ cache_duration > 0
  /\ now = cached_data.expires_at
  /\ last.ret = None

\* C4 as stated: for every list X, every prior cache state and every cache
\* duration, immediately after set(X) get() returns X, status is "valid" and
\* cached_items is len(X).
C4_AfterSetAnyDuration ==
  IsCacheCall("set") =>
    /\ get = JList(last.req.data)
    /\ get_cache_info.status = "valid"
    /\ get_cache_info.cached_items = Len(last.req.data)

\* C4, amended: for every list X, every prior cache state and every cache
\* duration greater than zero, immediately after set(X) get() returns X, status
\* is "valid" and cached_items is len(X).
C4_AfterSetPositiveDuration ==
  (IsCacheCall("set") /\ cache_duration > 0) =>
    /\ get = JList(last.req.data)
    /\ get_cache_info.status = "valid"
    /\ get_cache_info.cached_items = Len(last.req.data)

\* set(X) has just replaced an earlier entry, with a duration greater than zero.
C4_Witness ==
  /\ IsCacheCall("set")
  /\ cache_duration > 0
  /\ now > 0
  /\ Len(last.req.data) = 2

\* C5: once the clock is past fetched_at + cache_duration of the entry stored by
\* the last set(X), get() returns None, status is "expired" and cached_items is
\* still len(X).
C5_ExpiredStaysInspectable ==
  (cached_data # None /\ now > cached_data.timestamp + cache_duration) =>
    /\ get = None
    /\ get_cache_info.status = "expired"
    /\ get_cache_info.cached_items = Len(cached_data.data)
    /\ IsCacheCall("get") => last.ret = None
    /\ IsCacheCall("get_cache_info") =>
         /\ last.ret.info.status = "expired"
         /\ last.ret.info.cached_items = Len(cached_data.data)

\* status() was asked about a non-empty entry after its duration had passed.
C5_Witness ==
  /\ IsCacheCall("get_cache_info")
  /\ cached_data # None
  /\ cache_duration > 0
  /\ now > cached_data.timestamp + cache_duration
  /\ Len(cached_data.data) > 0

C6_Consistent ==
  /\ get_cache_info.status \in {"empty", "valid", "expired"}
  /\ (get_cache_info.status = "empty") <=> (cached_data = None)
  /\ (get_cache_info.status = "valid") <=> (get # None)
  /\ (get_cache_info.status = "expired") <=> (cached_data # None /\ get = None)

\* C6: status() classifies the cache as get() does at the same instant: "empty"
\* exactly when no entry has ever been stored (the initial state, where get()
\* is None and is_expired() is true), "valid" exactly when get() returns data,
\* "expired" exactly when an entry exists and get() returns None.
C6_StatusAgreesWithGet ==
  /\ (cached_data = None /\ get = None /\ is_expired /\ C6_Consistent)
  /\ [][/\ C6_Consistent'
        /\ (cached_data # None) => (cached_data' # None)
        /\ (cached_data = None /\ cached_data' # None) => IsCacheCall("set")']_vars

\* status() was asked at the very instant an entry expires.
C6_Witness ==
  /\ IsCacheCall("get_cache_info")
  /\ cached_data # None
  /\ cache_duration > 0
  /\ now = cached_data.expires_at
  /\ last.ret.info.status = "expired"

AllStatusFields ==
  {"status", "cached_items", "cached_at", "expires_at", "cache_duration_minutes"}

\* C7 as stated: in every cache state (empty, valid, expired) status() reports a
\* mapping with all five fields.
C7_FiveFieldsAlways ==
  IsCacheCall("get_cache_info") => DOMAIN last.ret.info = AllStatusFields

\* C7, amended: in the valid and the expired state status() reports all five
\* fields; in the empty state it reports only status and cached_items.
C7_FiveFieldsWhenPopulated ==
  IsCacheCall("get_cache_info") =>
    DOMAIN last.ret.info =
      IF cached_data = None THEN {"status", "cached_items"} ELSE AllStatusFields

\* status() was asked about an expired entry.
C7_Witness ==
  /\ IsCacheCall("get_cache_info")
  /\ CacheExpired
  /\ cache_duration > 0

\* The requests whose handler calls get_incidents, and those that force a refresh.
IsSearch(r) == r.kind = "call_tool" /\ r.name = "search_incidents"
CallsGetIncidents(r) ==
  \/ r.kind = "call_tool" /\ r.name \in {"get_mvg_incidents", "search_incidents"}
  \/ r.kind = "read_resource" /\ r.uri = "mvg://incidents"
AsksForce(r) ==
  /\ r.kind = "call_tool"
  /\ r.name = "get_mvg_incidents"
  /\ HasKey(r.arguments, "force_refresh")
  /\ r.arguments.map["force_refresh"] = JBool(TRUE)

\* The list a handler that returns get_incidents' list returned.
ReturnedList(ret) ==
  IF ret.kind = "incidents_result" THEN ret.incidents ELSE ret.items

\* C2: one get_incidents(force_refresh=true) issues exactly one upstream call in
\* every cache state and for every fetch outcome; one get_incidents(false)
\* issues none when the cache is valid (an empty list included) and returns the
\* list the last successful fetch stored, and exactly one when the cache is empty
\* or expired.
C2_UpstreamCallsPerInvocation ==
  [][\A c \in Callers :
       (last'.caller = c /\ CallsGetIncidents(last'.req)) =>
         IF pc[c] = "idle"
         THEN IF ~AsksForce(last'.req) /\ CacheValid
              THEN /\ pc'[c] = "idle"
                   /\ last'.gets = 0
                   /\ ~IsSearch(last'.req) =>
                        ReturnedList(last'.ret) = cached_data.data
              ELSE /\ pc'[c] = "awaiting"
                   /\ last'.gets = 1
                   /\ last'.ret = Awaiting
         ELSE /\ pc'[c] = "idle"
              /\ last'.gets = 1
              /\ last'.ret # Awaiting]_vars

\* A forced refresh has issued its upstream call although the cache is valid.
C2_Witness ==
  /\ last.caller \in Callers
  /\ AsksForce(last.req)
  /\ CacheValid
  /\ last.ret = Awaiting
  /\ last.gets = 1

\* C3: when the upstream fetch inside get_incidents fails (network failure, or a
\* body that cannot be decoded), the caller gets that failure as an error and
\* the cache entry is what it was before, whatever force_refresh and the cache
\* state were; an entry that was valid is still served by get().
C3_FailedFetchKeepsCache ==
  [][\A c \in Callers :
       /\ (last'.caller = c /\ pc[c] = "idle" /\ CallsGetIncidents(last'.req)) =>
            cached_data' = cached_data
       /\ (last'.caller = c /\ pc[c] = "awaiting" /\ IsRaise(last'.raw)) =>
            /\ last'.ret = last'.raw
            /\ cached_data' = cached_data
            /\ get' = get]_vars

\* A forced refresh has just failed over an entry that is still valid.
C3_Witness ==
  /\ last.caller \in Callers
  /\ AsksForce(last.req)
  /\ last.raw = Raise("JSONDecodeError")
  /\ IsRaise(last.ret)
  /\ CacheValid
  /\ get # None

C10_MissingQueryIsAnError ==
  (/\ IsSearch(last.req)
   /\ ~HasKey(last.req.arguments, "query")
   /\ last.ret # Awaiting) => IsRaise(last.ret)

\* --- C8

\* a is a case-insensitive substring of b
CISubstring(a, b) == Contains(Lower(a), Lower(b))

\* The title and the description of an incident, empty when it has none.
TitleOf(inc) == IF HasKey(inc, "title") THEN inc.map["title"].s ELSE <<>>
DescriptionOf(inc) ==
  IF HasKey(inc, "description") THEN inc.map["description"].s ELSE <<>>
\* The labels of the lines of an incident.
LabelsOf(inc) ==
  IF HasKey(inc, "lines")
  THEN LET ls == inc.map["lines"].items IN
       { ls[i].map["label"].s :
           i \in { j \in 1..Len(ls) : IsDict(ls[j]) /\ HasKey(ls[j], "label") } }
  ELSE {}

QueryMatches(inc, q) ==
  \/ CISubstring(q, TitleOf(inc))
  \/ CISubstring(q, DescriptionOf(inc))
  \/ \E l \in LabelsOf(inc) : CISubstring(q, l)

\* The search has returned a result for a request that gives a query.
SearchAnswered ==
  /\ IsSearch(last.req)
  /\ HasKey(last.req.arguments, "query")
  /\ last.ret.kind = "search_result"

\* C8 as stated: an incident is included iff the query is a case-insensitive
\* substring of its title, its description or the label of one of its lines, and
\* the line filter is absent or a case-insensitive substring of the label of one
\* of its lines.
C8_IncludedIff ==
  SearchAnswered =>
    LET a == last.req.arguments
        Included(inc) ==
          /\ QueryMatches(inc, a.map["query"].s)
          /\ \/ ~HasKey(a, "line")
             \/ \E l \in LabelsOf(inc) : CISubstring(a.map["line"].s, l)
    IN last.ret.incidents = SelectSeq(cached_data.data, Included)

\* C8, amended: an incident is included iff the query is a case-insensitive
\* substring of its title, its description or the label of one of its lines, and
\* the line filter is absent or the empty string, or a case-insensitive substring
\* of the label of one of its lines.
C8_IncludedIffEmptyFilterIsNone ==
  SearchAnswered =>
    LET a == last.req.arguments
        Included(inc) ==
          /\ QueryMatches(inc, a.map["query"].s)
          /\ \/ ~HasKey(a, "line")
             \/ a.map["line"].s = <<>>
             \/ \E l \in LabelsOf(inc) : CISubstring(a.map["line"].s, l)
    IN last.ret.incidents = SelectSeq(cached_data.data, Included)

\* Two incidents whose titles both match the query, one on U3 and one on U6: the
\* line filter "U3" has returned the first alone.
C8_Witness ==
  /\ SearchAnswered
  /\ HasKey(last.req.arguments, "line")
  /\ last.req.arguments.map["line"].s = <<"U", "3">>
  /\ last.req.arguments.map["query"].s = <<"u", "-", "b", "a", "h", "n">>
  /\ Len(cached_data.data) = 2
  /\ \A i \in 1..2 :
       CISubstring(last.req.arguments.map["query"].s, TitleOf(cached_data.data[i]))
  /\ LabelsOf(cached_data.data[1]) = {<<"U", "3">>}
  /\ LabelsOf(cached_data.data[2]) = {<<"U", "6">>}
  /\ last.ret.incidents = <<cached_data.data[1]>>
  /\ last.ret.count = 1

\* --- C11

KnownTools == {"get_mvg_incidents", "get_cache_status", "search_incidents"}
KnownUris == {"mvg://incidents", "mvg://cache-info"}

\* A request for an operation the server does not have.
IsUnknown(r) ==
  \/ r.kind = "call_tool" /\ r.name \notin KnownTools
  \/ r.kind = "read_resource" /\ r.uri \notin KnownUris

\* C11: a request for an unknown operation (a tool name other than
\* get_mvg_incidents, get_cache_status, search_incidents, or a resource URI other
\* than mvg://incidents, mvg://cache-info) ends in an error the caller sees, with
\* no upstream call issued and the cache left as it was.
C11_UnknownOperationIsAnError ==
  [][\A c \in Callers :
       (last'.caller = c /\ IsUnknown(last'.req)) =>
         /\ IsRaise(last'.ret)
         /\ last'.gets = 0
         /\ pc[c] = "idle" /\ pc'[c] = "idle"
         /\ calls' = calls
         /\ cached_data' = cached_data]_vars

\* An unknown resource was asked for while the cache was valid and the other
\* caller was waiting for the upstream.
C11_Witness ==
  /\ last.caller \in Callers
  /\ IsUnknown(last.req)
  /\ last.req.kind = "read_resource"
  /\ IsRaise(last.ret)
  /\ CacheValid
  /\ \E c \in Callers : pc[c] = "awaiting"

\* --- C12

\* a is b with some of its elements left out
RECURSIVE IsSubsequence(_, _)
IsSubsequence(a, b) ==
  IF a = <<>> THEN TRUE
  ELSE IF b = <<>> THEN FALSE
  ELSE IF Head(a) = Head(b) THEN IsSubsequence(Tail(a), Tail(b))
  ELSE IsSubsequence(a, Tail(b))

\* The argument as the caller gave it, null when it was not given.
GivenArgument(r, k) ==
  IF HasKey(r.arguments, k) THEN r.arguments.map[k] ELSE None

\* C12: for every successful search, incidents is a subsequence (same relative
\* order, nothing added twice) of the list get_incidents returned, count is the
\* length of incidents, total_incidents is the length of the list before
\* filtering (so count <= total_incidents), and query and line_filter are the
\* caller's arguments as given, not case-folded.  When nothing matches the result
\* has count 0 and an empty list and is not an error.
C12_SearchResultShape ==
  (IsSearch(last.req) /\ last.ret # Awaiting) =>
    /\ last.ret.kind = "search_result" =>
         /\ IsSubsequence(last.ret.incidents, cached_data.data)
         /\ last.ret.count = Len(last.ret.incidents)
         /\ last.ret.total_incidents = Len(cached_data.data)
         /\ last.ret.count <= last.ret.total_incidents
         /\ last.ret.query = GivenArgument(last.req, "query")
         /\ last.ret.line_filter = GivenArgument(last.req, "line")
    /\ (\A i \in 1..Len(cached_data.data) :
          ~QueryMatches(cached_data.data[i], last.req.arguments.map["query"].s)) =>
         /\ last.ret.kind = "search_result"
         /\ last.ret.count = 0
         /\ last.ret.incidents = <<>>

\* A search given "U-BAHN" and the filter "u3" has returned one of two incidents
\* and echoes both arguments as given.
C12_Witness ==
  /\ IsSearch(last.req)
  /\ last.ret.kind = "search_result"
  /\ last.ret.query = JStr(<<"U", "-", "B", "A", "H", "N">>)
  /\ last.ret.line_filter = JStr(<<"u", "3">>)
  /\ last.ret.count = 1
  /\ last.ret.total_incidents = 2
  /\ last.ret.incidents = <<cached_data.data[2]>>

\* --- C13

\* The search ran to its end over a list the cache or the upstream delivered.
SearchRan ==
  /\ IsSearch(last.req)
  /\ last.ret # Awaiting
  /\ ~IsRaise(last.raw)

\* C13: search_incidents never fails because of the shape of a cached incident:
\* whatever the title, the description, lines or a line's label are (missing,
\* null, or of another type), the search completes without an error; and an
\* incident with no lines field is not matched through its lines, so that a line
\* filter excludes it.
C13_SearchToleratesAnyShape ==
  SearchRan =>
    /\ last.ret.kind = "search_result"
    /\ LineFilterOf(last.req.arguments) # <<>> =>
         \A i \in 1..Len(last.ret.incidents) :
           HasKey(last.ret.incidents[i], "lines")

\* --- C14

\* The method of MVGDataFetcher that was called and has returned.
FetcherReturned(name) ==
  /\ last.caller = "api"
  /\ last.req.kind = "fetcher_api"
  /\ last.req.name = name

\* A mapping-typed element whose type is the literal INCIDENT.
IsIncidentRecord(m) ==
  /\ m.kind = "dict"
  /\ "type" \in DOMAIN m.map
  /\ m.map["type"] = JStr(<<"I", "N", "C", "I", "D", "E", "N", "T">>)

\* The elements of a sequence the Normalizer is to keep, in their order.
IncidentsOf(elems) == SelectSeq(elems, IsIncidentRecord)

\* The payload is a mapping with a list under key k.
HoldsList(raw, k) ==
  raw.kind = "dict" /\ k \in DOMAIN raw.map /\ raw.map[k].kind = "list"

\* The payload is a mapping carrying a type field.
CarriesType(raw) == raw.kind = "dict" /\ "type" \in DOMAIN raw.map

\* What the claim's four shapes make of a payload: for each shape the payload
\* has, the kept elements of that shape's list.
ShapeReadings(raw) ==
  (IF raw.kind = "list" THEN {IncidentsOf(raw.items)} ELSE {}) \cup
  (IF HoldsList(raw, "messages") THEN {IncidentsOf(raw.map["messages"].items)} ELSE {}) \cup
  (IF HoldsList(raw, "data") THEN {IncidentsOf(raw.map["data"].items)} ELSE {}) \cup
  (IF CarriesType(raw) THEN {IncidentsOf(<<raw>>)} ELSE {})

\* C14 as stated: for every payload of one of the shapes bare list, mapping with
\* a "messages" list, mapping with a "data" list, or single mapping carrying a
\* "type" field, filter_incidents returns exactly the mapping-typed elements
\* whose type is "INCIDENT", in their order, and drops every other element (for a
\* payload that has several of the shapes, the elements of one of them).
C14_EveryShape ==
  (FetcherReturned("filter_incidents") /\ ShapeReadings(last.req.arg) # {}) =>
    last.ret.items \in ShapeReadings(last.req.arg)

\* C14, amended: the shapes are recognised in the order bare list, mapping with
\* a "messages" list, mapping with a "data" list and no "messages" list, single
\* mapping carrying a "type" field and no list under messages, data, items or
\* results; for a payload recognised as one of them filter_incidents returns
\* exactly the mapping-typed elements of that list (or the single mapping) whose
\* type is "INCIDENT", in their order, and drops every other element.
C14_ShapesInPriorityOrder ==
  FetcherReturned("filter_incidents") =>
    LET raw == last.req.arg
        out == last.ret.items
    IN /\ raw.kind = "list" => out = IncidentsOf(raw.items)
       /\ HoldsList(raw, "messages") => out = IncidentsOf(raw.map["messages"].items)
       /\ (HoldsList(raw, "data") /\ ~HoldsList(raw, "messages")) =>
            out = IncidentsOf(raw.map["data"].items)
       /\ (/\ CarriesType(raw)
           /\ \A k \in {"messages", "data", "items", "results"} : ~HoldsList(raw, k)) =>
            out = IncidentsOf(<<raw>>)

\* A mapping whose "data" list holds an INCIDENT and an INFO record (and whose
\* "messages" is no list) has been reduced to the INCIDENT record.
C14_Witness ==
  /\ FetcherReturned("filter_incidents")
  /\ HoldsList(last.req.arg, "data")
  /\ "messages" \in DOMAIN last.req.arg.map
  /\ Len(last.req.arg.map["data"].items) = 2
  /\ Len(last.ret.items) = 1
  /\ last.ret.items[1] = last.req.arg.map["data"].items[1]

\* --- C15

\* The payload has none of the shapes the Normalizer recognises.
Unrecognised(raw) ==
  /\ raw.kind # "list"
  /\ \A k \in {"messages", "data", "items", "results"} : ~HoldsList(raw, k)
  /\ ~CarriesType(raw)

\* The payload is a list none of whose elements is a mapping.
ListOfNonMappings(raw) ==
  raw.kind = "list" /\ \A i \in 1..Len(raw.items) : raw.items[i].kind # "dict"

\* C15: filter_incidents never fails: for every raw value that matches no
\* recognised container shape (a scalar, null, a mapping with none of the
\* container keys and no type, a mapping whose container keys hold non-sequences,
\* a list of non-mappings) it returns an empty sequence instead of raising.
C15_NormalizerNeverFails ==
  FetcherReturned("filter_incidents") =>
    /\ last.ret.kind = "list"
    /\ (Unrecognised(last.req.arg) \/ ListOfNonMappings(last.req.arg)) =>
         last.ret.items = <<>>

\* A mapping whose "messages" holds an INCIDENT record instead of a list has
\* been reduced to the empty sequence.
C15_Witness ==
  /\ FetcherReturned("filter_incidents")
  /\ Unrecognised(last.req.arg)
  /\ last.req.arg.kind = "dict"
  /\ "messages" \in DOMAIN last.req.arg.map
  /\ IsIncidentRecord(last.req.arg.map["messages"])
  /\ last.ret.items = <<>>

\* --- C16

\* C16: enhance_incident_data is pure and non-mutating: the input record is as
\* it was, a second call on the same input yields an equal output, and every key
\* of the input maps to the same value in the output (added fields never replace
\* originals).
C16_EnricherKeepsOriginals ==
  [][(FetcherReturned("enhance_incident_data")' /\ last'.ret.kind = "dict") =>
       /\ last'.req = last.req
       /\ last'.ret = enhance_incident_data(last'.req.arg)
       /\ \A k \in DOMAIN last'.req.arg.map :
            /\ k \in DOMAIN last'.ret.map
            /\ last'.ret.map[k] = last'.req.arg.map[k]]_vars

\* --- C17

\* An int that datetime.fromtimestamp cannot convert.
ConversionFails(v) == v.kind = "int" /\ "range" \in DOMAIN v

\* C17: whenever the conversion of an integer epoch-millisecond field fails, for
\* whatever reason, enhance_incident_data sets <field>_readable to the string
\* representation of the value and does not raise; so fetch_incidents never
\* fails because of a timestamp value.
C17_ConversionFailureFallsBack ==
  /\ FetcherReturned("format_timestamp") => last.ret.kind = "str"
  /\ FetcherReturned("enhance_incident_data") =>
       /\ last.ret.kind = "dict"
       /\ \A f \in {"publication", "validFrom", "validTo"} :
            (f \in DOMAIN last.req.arg.map /\ ConversionFails(last.req.arg.map[f])) =>
              last.ret.map[Readable(f)] = StrOfInt(last.req.arg.map[f])
  /\ FetcherReturned("fetch_incidents") => last.ret.kind = "list"

\* --- C18

\* The request is a search for the query q as given, without a line filter.
SearchesFor(r, q) ==
  /\ IsSearch(r)
  /\ DOMAIN r.arguments.map = {"query"}
  /\ r.arguments.map["query"] = JStr(q)

\* The cache holds, and serves, the one incident of the mocked upstream.
ServesTheIncident ==
  CacheValid /\ cached_data.data = <<IncidentU3>>

\* C18: with an upstream that answers with one INCIDENT record (title
\* "U-Bahn ...", lines [U3]) followed by one INFO record: a get_incidents() that
\* fetches returns exactly the one incident (the INFO record is dropped) after
\* exactly one upstream call and leaves it in the cache; a get_incidents() within
\* the cache duration issues no upstream call and returns the same incident;
\* search_incidents(query="U-Bahn") then yields count 1 and
\* search_incidents(query="S-Bahn") yields count 0, both with no upstream call.
C18_EndToEndTrace ==
  [][\A c \in Callers :
       (last'.caller = c) =>
         /\ (pc[c] = "awaiting" /\ ~IsSearch(last'.req)) =>
              /\ ReturnedList(last'.ret) = <<IncidentU3>>
              /\ last'.gets = 1
              /\ cached_data'.data = <<IncidentU3>>
              /\ cached_data'.timestamp = now
         /\ (pc[c] = "idle" /\ ServesTheIncident) =>
              /\ last'.gets = 0
              /\ pc'[c] = "idle"
              /\ cached_data' = cached_data
              /\ ~IsSearch(last'.req) => ReturnedList(last'.ret) = <<IncidentU3>>
              /\ SearchesFor(last'.req, <<"U", "-", "B", "a", "h", "n">>) =>
                   /\ last'.ret.kind = "search_result"
                   /\ last'.ret.count = 1
                   /\ last'.ret.incidents = <<IncidentU3>>
              /\ SearchesFor(last'.req, <<"S", "-", "B", "a", "h", "n">>) =>
                   /\ last'.ret.kind = "search_result"
                   /\ last'.ret.count = 0
                   /\ last'.ret.incidents = <<>>]_vars

\* Later than the fetch and within the cache duration, nobody waiting for the
\* upstream, the search for "S-Bahn" has returned count 0 from the cache.
C18_Witness ==
  /\ last.caller \in Callers
  /\ SearchesFor(last.req, <<"S", "-", "B", "a", "h", "n">>)
  /\ last.gets = 0
  /\ last.ret.kind = "search_result"
  /\ last.ret.count = 0
  /\ last.ret.total_incidents = 1
  /\ ServesTheIncident
  /\ now > cached_data.timestamp
  /\ \A c \in Callers : pc[c] = "idle"

\* --- C19

\* The entry has its three fields, and its expiry is its timestamp plus the
\* cache duration.
EntryComplete ==
  /\ DOMAIN cached_data = {"kind", "data", "timestamp", "expires_at"}
  /\ cached_data.expires_at = cached_data.timestamp + cache_duration

\* C19: in every reachable state, after any interleaving of the operations and
\* clock ticks, the cache is empty or holds one complete entry with
\* expires_at = fetched_at + cache_duration; cache_duration is the value given
\* at construction and no operation changes it; and whenever the entry changes,
\* data, fetched_at and expires_at are all written by that one step (fetched_at
\* is the time of the step): no partial update, no expiry set on its own.
C19_OneWholeEntry ==
  /\ [](CacheEmpty \/ EntryComplete)
  /\ [][/\ cache_duration' = cache_duration
        /\ (cached_data' # cached_data) =>
             /\ cached_data' # None
             /\ cached_data'.timestamp = now'
             /\ cached_data'.expires_at = now' + cache_duration
             /\ \E c \in Callers :
                  /\ last'.caller = c
                  /\ pc[c] = "awaiting"
                  /\ cached_data'.data = fetch_incidents(last'.raw).items]_vars

\* A forced refresh has replaced the entry at a later time while the other
\* caller was waiting for the upstream.
C19_Witness ==
  /\ last.caller \in Callers
  /\ AsksForce(last.req)
  /\ last.gets = 1
  /\ last.ret # Awaiting
  /\ ~IsRaise(last.ret)
  /\ cache_duration > 0
  /\ cached_data # None
  /\ cached_data.timestamp = now
  /\ now = MaxTime
  /\ Len(cached_data.data) > 0
  /\ \E c \in Callers : pc[c] = "awaiting"

\* --- C20

\* The status the cache has: empty, valid or expired.
CacheStatus ==
  IF CacheEmpty THEN "empty" ELSE IF CacheValid THEN "valid" ELSE "expired"

\* This step is the completion of a successful fetch, which stores its result.
FetchStored ==
  \E c \in Callers :
    /\ last'.caller = c
    /\ pc[c] = "awaiting"
    /\ ~IsRaise(last'.ret)
    /\ cached_data' # None
    /\ cached_data'.timestamp = now

\* This step is the passage of time and nothing else.
TimePassed == now' > now /\ cached_data' = cached_data

\* C20 as stated: the status follows only these transitions: empty -> valid and
\* expired -> valid only through the completion of a successful fetch;
\* valid -> expired only through the passage of time; valid -> valid (the entry
\* replaced) through a successful forced refresh; once an entry is stored the
\* status never returns to empty; an expired entry never becomes valid again
\* without a new set.
C20_OnlyTheseTransitions ==
  [][/\ <<CacheStatus, CacheStatus'>> \in
          { <<"empty", "empty">>, <<"empty", "valid">>, <<"valid", "valid">>,
            <<"valid", "expired">>, <<"expired", "expired">>, <<"expired", "valid">> }
     /\ (CacheStatus \in {"empty", "expired"} /\ CacheStatus' = "valid") => FetchStored
     /\ (CacheStatus = "valid" /\ CacheStatus' = "expired") => TimePassed
     /\ (CacheStatus = "valid" /\ cached_data' # cached_data) =>
          (FetchStored /\ AsksForce(last'.req) /\ CacheStatus' = "valid")
     /\ (CacheStatus = "expired" /\ CacheStatus' = "valid") =>
          cached_data' # cached_data]_vars

\* C20, amended: for every cache duration greater than zero the status follows
\* only these transitions: empty -> valid and expired -> valid only through the
\* completion of a successful fetch; valid -> expired only through the passage
\* of time; valid -> valid (the entry replaced) through the completion of a
\* successful fetch, forced or begun before the entry was stored; once an entry
\* is stored the status never returns to empty; an expired entry never becomes
\* valid again without a new set.
C20_TransitionsPositiveDuration ==
  [][cache_duration > 0 =>
       /\ <<CacheStatus, CacheStatus'>> \in
            { <<"empty", "empty">>, <<"empty", "valid">>, <<"valid", "valid">>,
              <<"valid", "expired">>, <<"expired", "expired">>, <<"expired", "valid">> }
       /\ (CacheStatus \in {"empty", "expired"} /\ CacheStatus' = "valid") => FetchStored
       /\ (CacheStatus = "valid" /\ CacheStatus' = "expired") => TimePassed
       /\ (CacheStatus = "valid" /\ cached_data' # cached_data) =>
            (FetchStored /\ CacheStatus' = "valid")
       /\ (CacheStatus = "expired" /\ cached_data' # cached_data) =>
            (FetchStored /\ CacheStatus' = "valid")
       /\ (CacheStatus = "expired" /\ CacheStatus' = "valid") =>
            cached_data' # cached_data]_vars

\* The clock has just reached the expiry of an entry that was valid until now.
C20_Witness ==
  /\ last.caller = "clock"
  /\ cache_duration > 0
  /\ cached_data # None
  /\ now = cached_data.expires_at
  /\ CacheStatus = "expired"

\* --- C21

\* The requests answered with the cache status.
IsStatusRequest(r) ==
  \/ r.kind = "call_tool" /\ r.name = "get_cache_status"
  \/ r.kind = "read_resource" /\ r.uri = "mvg://cache-info"

\* C21: the cache entry is read-only between writes: get(), the status,
\* get_incidents(force_refresh=false) on a hit and search_incidents on a hit
\* leave data, fetched_at and expires_at as they are and issue no upstream call
\* (a read never extends the expiry); the status request fails in no cache state.
C21_ReadsLeaveTheEntry ==
  [][/\ \A c \in Callers :
          (last'.caller = c /\ pc[c] = "idle") =>
            /\ cached_data' = cached_data
            /\ IsStatusRequest(last'.req) =>
                 /\ last'.ret.kind = "cache_info"
                 /\ last'.ret.info.status = CacheStatus
                 /\ last'.gets = 0
                 /\ pc'[c] = "idle"
                 /\ calls' = calls
            /\ (CallsGetIncidents(last'.req) /\ ~AsksForce(last'.req) /\ CacheValid) =>
                 /\ last'.ret # Awaiting
                 /\ ~IsRaise(last'.ret)
                 /\ last'.gets = 0
                 /\ pc'[c] = "idle"
                 /\ calls' = calls
     /\ (last'.caller = "api" /\ last'.req.kind = "cache_api"
           /\ last'.req.name \in {"get", "get_cache_info", "is_expired"}) =>
          cached_data' = cached_data]_vars

\* A search was served from an entry stored earlier, whose expiry is still its
\* timestamp plus the cache duration.
C21_Witness ==
  /\ last.caller \in Callers
  /\ IsSearch(last.req)
  /\ last.gets = 0
  /\ last.ret.kind = "search_result"
  /\ CacheValid
  /\ now > cached_data.timestamp
  /\ cached_data.expires_at = cached_data.timestamp + cache_duration

\* --- C22

PriorityOrder == <<"messages", "data", "items", "results">>

\* The keys of PriorityOrder, by position, that are present and hold a sequence.
Winners(raw) == { i \in 1..Len(PriorityOrder) : HoldsList(raw, PriorityOrder[i]) }

\* The first of them.
Winner(raw) == CHOOSE i \in Winners(raw) : \A j \in Winners(raw) : i <= j

\* The candidate list the claim gives for a mapping payload.
CandidatesOf(raw) ==
  IF Winners(raw) # {} THEN raw.map[PriorityOrder[Winner(raw)]].items
  ELSE IF CarriesType(raw) THEN <<raw>>
  ELSE <<>>

\* C22: for a mapping payload filter_incidents probes the keys messages, data,
\* items, results in that order and uses the first that is present and holds a
\* sequence: a key holding a non-sequence is skipped and later keys are still
\* considered; once a key wins, later keys and the mapping's own type are
\* ignored (a winning empty list yields an empty result); only when no key wins
\* and the mapping has a type is the mapping itself the one candidate;
\* otherwise there is no candidate.
C22_FirstListKeyWins ==
  (FetcherReturned("filter_incidents") /\ last.req.arg.kind = "dict") =>
    last.ret.items = IncidentsOf(CandidatesOf(last.req.arg))

\* An INCIDENT record that also holds an empty list under "results" has been
\* reduced to the empty sequence: the list won over the record's own type.
C22_Witness ==
  /\ FetcherReturned("filter_incidents")
  /\ IsIncidentRecord(last.req.arg)
  /\ Winners(last.req.arg) = {4}
  /\ last.req.arg.map["results"].items = <<>>
  /\ last.ret.items = <<>>

\* --- C23

\* The derived key of a time field.
ReadableKey(f) ==
  CASE f = "publication" -> "publication_readable"
    [] f = "validFrom" -> "validFrom_readable"
    [] f = "validTo" -> "validTo_readable"

\* The value is a JSON integer: a number without a fraction, not a boolean, a
\* string or null.
IsJsonInteger(v) == v.kind = "int"

\* C23: for each field f of publication, validFrom, validTo the output of
\* enhance_incident_data has the derived key f_readable if and only if f is
\* present in the input and its value is an integer; when f is absent or holds
\* a non-integer no f_readable key is added, and no key other than these three
\* is added.  (A key f_readable the input already has is not counted as added.)
C23_ReadableIffInteger ==
  (FetcherReturned("enhance_incident_data") /\ last.ret.kind = "dict") =>
    LET input == last.req.arg.map
        output == last.ret.map
        added == DOMAIN output \ DOMAIN input
    IN /\ \A f \in {"publication", "validFrom", "validTo"} :
            /\ (f \in DOMAIN input /\ IsJsonInteger(input[f])) =>
                 ReadableKey(f) \in DOMAIN output
            /\ ReadableKey(f) \in added =>
                 (f \in DOMAIN input /\ IsJsonInteger(input[f]))
       /\ added \subseteq
            {"publication_readable", "validFrom_readable", "validTo_readable"}

\* --- C24

\* The Enricher applied to each element of the Normalizer's result, in order.
EnrichedNormalized(raw) ==
  [i \in 1..Len(filter_incidents(raw)) |->
     enhance_incident_data(filter_incidents(raw)[i])]

\* C24: on a successful upstream response fetch_incidents returns exactly the
\* Enricher applied to each element of Normalizer(raw), in the Normalizer's
\* order and of the same length (nothing added, dropped, duplicated or
\* reordered), and this is the list get_incidents stores in the cache and
\* returns.
C24_FetchIsEnrichedNormalized ==
  [][\A c \in Callers :
       (last'.caller = c /\ pc[c] = "awaiting" /\ ~IsRaise(last'.raw)) =>
         LET normalized == filter_incidents(last'.raw)
             fetched == fetch_incidents(last'.raw)
         IN /\ fetched = JList(EnrichedNormalized(last'.raw))
            /\ Len(fetched.items) = Len(normalized)
            /\ \A i \in 1..Len(normalized) :
                 \A k \in DOMAIN normalized[i].map :
                   fetched.items[i].map[k] = normalized[i].map[k]
            /\ cached_data' # None
            /\ cached_data'.data = fetched.items
            /\ ~IsSearch(last'.req) => ReturnedList(last'.ret) = fetched.items
            /\ IsSearch(last'.req) =>
                 last'.ret.total_incidents = Len(normalized)]_vars

\* get_incidents has fetched a "messages" list of three incidents, stored and
\* returned the three in order, the second with its publication made readable.
C24_Witness ==
  /\ last.caller \in Callers
  /\ last.gets = 1
  /\ last.raw.kind = "dict"
  /\ last.ret.kind = "incidents_result"
  /\ last.ret.incidents = cached_data.data
  /\ Len(cached_data.data) = 3
  /\ "publication_readable" \in DOMAIN cached_data.data[2].map
  /\ "publication_readable" \notin DOMAIN last.raw.map["messages"].items[2].map
  /\ \A i \in 1..3 :
       cached_data.data[i].map["title"] = last.raw.map["messages"].items[i].map["title"]

\* --- C25

\* C25: with the upstream call as the only suspension point, a caller that
\* invokes get_incidents while the cache is empty or expired issues its own
\* upstream call even when another caller's fetch is already in flight (no
\* single-flight de-duplication: two upstream calls within one cache-miss window
\* are reachable), while each single get_incidents, search or resource request
\* issues at most one upstream call.
C25_NoSingleFlight ==
  /\ [](/\ \A c \in Callers : calls[c] <= 1
        /\ last.gets <= 1)
  /\ [][\A c \in Callers :
          (/\ last'.caller = c
           /\ pc[c] = "idle"
           /\ CallsGetIncidents(last'.req)
           /\ ~CacheValid) =>
            /\ pc'[c] = "awaiting"
            /\ last'.gets = 1
            /\ \A d \in Callers \ {c} : pc'[d] = pc[d] /\ calls'[d] = calls[d]]_vars

\* Two unforced requests are both waiting for their own upstream call over a
\* cache that is not valid.
C25_Witness ==
  /\ \A c \in Callers :
       /\ pc[c] = "awaiting"
       /\ calls[c] = 1
       /\ ~AsksForce(req[c])
  /\ ~CacheValid
  /\ last.ret = Awaiting

\* --- C26

\* The handler of caller c has just ended, with a result or with an error.
Ended(c) ==
  /\ last.caller = c
  /\ pc[c] = "idle"
  /\ last.ret # Awaiting
  /\ last.gets = 1

Overlapping(c) == \E d \in Callers \ {c} : pc[d] = "awaiting"

\* C27 (last writer wins): when get_incidents calls have overlapping upstream
\* fetches that succeed, each caller receives the result of its own fetch, and
\* each completion stores that result whole, with fetched_at the time of the
\* completion, whatever entry another fetch stored meanwhile: after all have
\* completed the cache holds the data of the fetch that completed last, never a
\* mixture of two results.
C27_LastWriterWins ==
  [][\A c \in Callers :
       (last'.caller = c /\ pc[c] = "awaiting" /\ ~IsRaise(last'.raw)) =>
         LET own == fetch_incidents(last'.raw).items IN
         /\ ~IsSearch(last'.req) => ReturnedList(last'.ret) = own
         /\ IsSearch(last'.req) => IsSubsequence(last'.ret.incidents, own)
         /\ cached_data' = CachedData(own, now, now + cache_duration)
         /\ \A d \in Callers \ {c} : pc'[d] = pc[d] /\ req'[d] = req[d]]_vars

\* An unforced fetch has completed later than time 0 while the other caller's
\* fetch is still in flight; it got its own list and that list is the entry.
C27_Witness ==
  /\ last.caller \in Callers
  /\ last.gets = 1
  /\ ~AsksForce(last.req)
  /\ last.ret.kind = "incidents_result"
  /\ Len(last.ret.incidents) = 3
  /\ Overlapping(last.caller)
  /\ cached_data # None
  /\ cached_data.data = last.ret.incidents
  /\ cached_data.timestamp = now
  /\ now > 0

\* --- C28

\* C28 (no negative caching): a failed fetch is never remembered: it leaves the
\* cache and its status as they were, so while the cache is empty or expired
\* every get_incidents, search or resource request issues a new upstream call,
\* and fails when that call fails; the first upstream success makes the cache
\* valid, and a get_incidents(force_refresh=false) that finds it valid is served
\* without an upstream call.
C28_FailuresAreNotRemembered ==
  [][\A c \in Callers :
       (last'.caller = c) =>
         /\ (pc[c] = "idle" /\ CallsGetIncidents(last'.req) /\ ~CacheValid) =>
              /\ pc'[c] = "awaiting"
              /\ last'.gets = 1
         /\ (pc[c] = "awaiting" /\ IsRaise(last'.raw)) =>
              /\ last'.ret = last'.raw
              /\ cached_data' = cached_data
              /\ CacheStatus' = CacheStatus
         /\ (pc[c] = "awaiting" /\ ~IsRaise(last'.raw)) =>
              /\ CacheStatus' = "valid"
              /\ get_incidents_cached(FALSE)' # None
         /\ (pc[c] = "idle" /\ CallsGetIncidents(last'.req)
               /\ ~AsksForce(last'.req) /\ CacheValid) =>
              /\ pc'[c] = "idle"
              /\ last'.gets = 0
              /\ ~IsRaise(last'.ret)]_vars

\* A request that found the entry expired has issued its upstream call, and that
\* call has failed: the entry is still there, still expired.
C28_Witness ==
  /\ last.caller \in Callers
  /\ ~AsksForce(last.req)
  /\ last.gets = 1
  /\ IsRaise(last.raw)
  /\ last.ret = last.raw
  /\ CacheStatus = "expired"
  /\ \A c \in Callers : pc[c] = "idle"

====
